---- MODULE Spec2Model ----
(***************************************************************************)
(* A model of the retrieval engine of grok-rag-chatbot:                    *)
(*   - MilvusService (backend/services/milvus_service.py): the vector      *)
(*     collection with add, list, delete and job search with LLM           *)
(*     re-scoring;                                                         *)
(*   - DocumentProcessor._chunk_text (backend/services/                    *)
(*     document_processor.py): the word-window chunker;                    *)
(*   - the handlers of app.py and app_hrsd.py that call them.              *)
(* The specifications share the variables: SpecStore (the collection),     *)
(* SpecChunk (one _chunk_text call, iteration by iteration), SpecSearch    *)
(* (search_jobs), SpecLife (the service objects from construction on:      *)
(* connection, collection, embedding model, failures of the store),        *)
(* SpecEncode (_get_embedding_model statement by statement, for the        *)
(* threads that share a service object), SpecChat (the chat of app.py) and *)
(* SpecUpload (the handlers that keep an upload in a temporary file).      *)
(***************************************************************************)
EXTENDS Integers, Sequences, FiniteSets, TLC

(***************************************************************************)
(* The fields of the records of the model (rows, chunks, jobs, results),   *)
(* each named once, in the order in which the records below list them.     *)
(***************************************************************************)
FieldOrder ==
    [arg |-> 0, at |-> 0, base_name |-> 0, chat_history |-> 0, chunk_count |-> 0,
     chunk_index |-> 0, collection_name |-> 0, company |-> 0,
     creates |-> 0, description |-> 0, dim |-> 0, distance |-> 0,
     docs |-> 0, drops |-> 0, education_requirements |-> 0, entity |-> 0,
     error |-> 0, exists |-> 0, experience_level |-> 0, fault |-> 0,
     field |-> 0, filename |-> 0, generated |-> 0, history |-> 0, id |-> 0, inserted_count |-> 0,
     job_title |-> 0, kind |-> 0, location |-> 0, match_score |-> 0,
     message |-> 0, name |-> 0, num |-> 0, ok |-> 0, op |-> 0, pad |-> 0, path |-> 0,
     prefix |-> 0, raised |-> 0, required_skills |-> 0, response |-> 0,
     result |-> 0,
     row_count |-> 0, rows |-> 0, salary_range |-> 0, scale |-> 0, score |-> 0,
     scores |-> 0, sources |-> 0, svc |-> 0, text |-> 0, top_k |-> 0, used |-> 0,
     value |-> 0, vector |-> 0, words |-> 0]

VARIABLES
    rows,           \* the collection: the stored rows, in insertion order
    next_id,        \* stands for uuid.uuid4(): the ids handed out so far
    insert_calls,   \* number of client.insert calls issued so far
    ret,            \* the last service call: its name, arguments and outcome
                    \* (op "search_jobs:await" while a search awaits the Generator)
    call,           \* the last service call: the service object it ran on and
                    \* the failure its store client met
    client,         \* self.client of each service object
    connects,       \* MilvusClient(...) constructions of each service object
    embedding_model,\* self.embedding_model of each service object: 0 for
                    \* None, else the number of the model instance
    loads,          \* the SentenceTransformer(...) constructions of the
                    \* process, each with the service object it was made for
    model_dim,      \* length of the vectors the model named by
                    \* EMBEDDING_MODEL produces
    collection,     \* the store's side of the collection "hrsd"
    enc,            \* the threads inside _generate_embeddings
    pc,             \* _chunk_text: position in the function
    text,           \* _chunk_text: argument text
    chunk_file,     \* _chunk_text: argument filename
    words,          \* _chunk_text: text.split(), each word by its length
    chunk_size,     \* DocumentProcessor.chunk_size
    chunk_overlap,  \* DocumentProcessor.chunk_overlap
    start,          \* _chunk_text: local start
    chunk_index,    \* _chunk_text: local chunk_index
    chunks,         \* _chunk_text: local chunks
    iters,          \* _chunk_text: iterations of the while loop so far
    chat,           \* app.py: the chat input being answered (get_chat_response)
    upload,         \* the upload handlers in progress (upload_cv and add_jobs
                    \* of app_hrsd.py, process_uploaded_file of app.py)
    temp_files,     \* the paths of the temporary files on disk
    temp_count      \* tempfile.NamedTemporaryFile: the names handed out so far

vars == <<rows, next_id, insert_calls, ret,
          call, client, connects, embedding_model, loads, model_dim,
          collection, enc,
          pc, text, chunk_file, words, chunk_size, chunk_overlap, start,
          chunk_index, chunks, iters,
          chat, upload, temp_files, temp_count>>

storeVars == <<rows, next_id, insert_calls, ret>>
svcVars == <<call, client, connects, embedding_model, loads, model_dim,
             collection, enc>>
chunkVars == <<pc, text, chunk_file, words, chunk_size, chunk_overlap, start,
               chunk_index, chunks, iters>>
appVars == <<chat, upload, temp_files, temp_count>>

(***************************************************************************)
(* Bounds of the model.                                                    *)
(***************************************************************************)
MaxAdds == 2        \* add calls per behaviour of SpecStore
BulkChunks == 600   \* size of the large add_documents batch
MaxWords == 4       \* words of a text given to _chunk_text
MaxIters == 6       \* loop iterations of _chunk_text followed (> MaxWords + 1)
MaxResp == 5        \* characters of a Generator response
MaxInits == 2       \* initialize calls per service object in SpecLife
MaxClears == 1      \* collections dropped per behaviour of SpecLife
MaxMessages == 12   \* messages of a chat session in SpecChat (> 10)
MaxUploads == 3     \* uploads begun per behaviour of SpecUpload

(***************************************************************************)
(* Small helpers.                                                          *)
(***************************************************************************)
Min(a, b) == IF a <= b THEN a ELSE b
Max(a, b) == IF a >= b THEN a ELSE b

\* dict.get(key, default)
Get(d, key, default) == IF key \in DOMAIN d THEN d[key] ELSE default

(***************************************************************************)
(* Strings whose characters matter are sequences of one-character strings. *)
(***************************************************************************)
DQ == "\""

\* The first position >= from at which s holds character c, or 0.
RECURSIVE FindChar(_, _, _)
FindChar(s, c, from) ==
    IF from > Len(s) THEN 0
    ELSE IF s[from] = c THEN from
    ELSE FindChar(s, c, from + 1)

(***************************************************************************)
(* The embedding model: model.encode(texts) returns one vector per text,   *)
(* a function of the text alone, of the length the model has.              *)
(***************************************************************************)
Vec(t) == <<"vec", model_dim, t>>

\* len(vector)
VectorDim(v) == v[2]

generate_embeddings(texts) == [i \in 1..Len(texts) |-> Vec(texts[i])]

(***************************************************************************)
(* The service objects of the process: app_hrsd.py makes a MilvusService   *)
(* for the search endpoints and a JobEmbedder, which makes its own.        *)
(***************************************************************************)
Api == 1
Embedder == 2
Services == {Api, Embedder}

\* the threads that may be inside _generate_embeddings at a time
Threads == {1, 2}

\* self.dimension
Dimension == 384

\* the length of the vectors of a model other than all-MiniLM-L6-v2
OtherDimension == 768

Connected(svc) == client[svc] = "connected"

\* _get_embedding_model, run without interruption: the instance the service
\* has afterwards, and the constructions of the process afterwards
LoadedModel(svc) ==
    IF embedding_model[svc] = 0 THEN Len(loads) + 1 ELSE embedding_model[svc]

get_embedding_model(svc) ==
    /\ embedding_model' = [embedding_model EXCEPT ![svc] = LoadedModel(svc)]
    /\ loads' = IF embedding_model[svc] = 0 THEN Append(loads, svc) ELSE loads

(***************************************************************************)
(* The store client (pymilvus.MilvusClient) as the service uses it.        *)
(***************************************************************************)

\* The store's side of the collection: whether it exists, the dimension its
\* schema was created with, and the create and drop calls it has seen.
NoCollection == [creates |-> 0, dim |-> 0, drops |-> 0, exists |-> FALSE]

\* (mutant) a missing client passes for a working one
ClientRaisesUnchecked(svc, fault) ==
    IF fault \notin {"none", "embed"} \/ ~collection.exists
    THEN "MilvusException" ELSE "none"

\* What a call on self.client raises: AttributeError when self.client is
\* None, MilvusException when the store fails or has no such collection.
ClientRaises(svc, fault) ==
    IF ~Connected(svc) THEN "AttributeError"
    ELSE IF fault \notin {"none", "embed"} \/ ~collection.exists
    THEN "MilvusException"
    ELSE "none"

\* client.insert checks every vector against the dimension of the schema
\* and raises, storing nothing, if one differs.
InsertRaises(svc, data, fault) ==
    IF ClientRaises(svc, fault) # "none" THEN ClientRaises(svc, fault)
    ELSE IF \E i \in 1..Len(data) : VectorDim(data[i].vector) # collection.dim
    THEN "MilvusException"
    ELSE "none"

\* (mutant) a failed encode passes for a successful one
EmbedRaisesNever(fault) == "none"

\* What _generate_embeddings raises: fault "embed" is a failure of
\* model.encode (line 100).
EmbedRaises(fault) == IF fault = "embed" THEN "EmbeddingError" ELSE "none"

\* add_jobs embeds (line 129) before it inserts (line 147); the first
\* exception ends the call.
AddJobsRaises(svc, data, fault) ==
    IF EmbedRaises(fault) # "none" THEN EmbedRaises(fault)
    ELSE InsertRaises(svc, data, fault)

\* search_jobs embeds the query (line 163) before it searches (line 166).
SearchJobsRaises(svc, fault) ==
    IF EmbedRaises(fault) # "none" THEN EmbedRaises(fault)
    ELSE ClientRaises(svc, fault)

\* client.insert(data=data): appends the rows.
ClientInsert(coll, data) == coll \o data

\* f'filename == "{filename}"'
FilterHead == <<"f", "i", "l", "e", "n", "a", "m", "e", " ", "=", "=", " ">>

DeleteFilter(fname) == FilterHead \o <<DQ>> \o fname \o <<DQ>>

\* The store's reading of a filter `filename == "<literal>"`: the string
\* literal runs from the opening quote to the next quote, and the expression
\* must end there. Anything else is a parse error, which the client raises.
\* (The filenames of the model hold no backslash, the literal's escape.)
ParseFilter(expr) ==
    LET h == Len(FilterHead)
        close == FindChar(expr, DQ, h + 2)
    IN  IF /\ Len(expr) >= h + 2
           /\ SubSeq(expr, 1, h) = FilterHead
           /\ expr[h + 1] = DQ
           /\ close = Len(expr)
        THEN [field |-> "filename", ok |-> TRUE,
              value |-> SubSeq(expr, h + 2, close - 1)]
        ELSE [ok |-> FALSE]

\* A row matches `field == value` when it has the field with that value (the
\* collection has dynamic fields: a row without the field matches nothing).
RowMatches(row, flt) == flt.field \in DOMAIN row /\ row[flt.field] = flt.value

\* client.delete(filter=expr): the collection afterwards.
ClientDelete(coll, flt) == SelectSeq(coll, LAMBDA r : ~RowMatches(r, flt))

\* filter="chunk_index >= 0"
HasChunkIndex(row) == "chunk_index" \in DOMAIN row /\ row["chunk_index"] >= 0

\* client.query(filter="chunk_index >= 0", limit=limit): at most `limit` of
\* the matching rows; the model returns them in storage order.
ClientQuery(coll, limit) ==
    LET hit == SelectSeq(coll, HasChunkIndex)
    IN  SubSeq(hit, 1, Min(Len(hit), limit))

(***************************************************************************)
(* Inputs of the store operations.                                         *)
(***************************************************************************)

\* Filenames: plain ones, and one that holds a double quote.
FileNames == { <<"a">>, <<"b">>, <<"a", DQ>> }

\* The chunks process_document hands to add_documents for one file: indices
\* 0..n-1, one filename.
Batch(fname, n) ==
    [i \in 1..n |-> [chunk_index |-> i - 1, filename |-> fname,
                     text |-> <<"t", i - 1>>]]

BatchSizes == {2, BulkChunks}

\* Job postings; a posting need not carry every field.
Job1 == [company |-> "acme", description |-> "mangledDescription",
         education_requirements |-> "bsc", experience_level |-> "mid",
         job_title |-> "nurse", location |-> "x", required_skills |-> "a,b",
         salary_range |-> "1-2"]
Job2 == [description |-> "short", job_title |-> "welder"]

JobLists == { <<>>, <<Job1>>, <<Job2, Job1>> }

(***************************************************************************)
(* GroqService.format_job_data. The two text repairs are functions of the  *)
(* field alone; the model keeps their early return (empty or short input   *)
(* is returned as is) and the fact that they rewrite longer text.          *)
(***************************************************************************)
aggressive_description_formatting(description) ==
    IF description \in {"", "short"} THEN description
    ELSE IF description = "mangledDescription" THEN "mangled description"
    ELSE description

aggressive_skills_formatting(skills) ==
    IF skills = "" THEN skills
    ELSE IF skills = "a,b" THEN "a, b"
    ELSE skills

\* job.copy() with the two fields overwritten
format_job(job) ==
    [k \in DOMAIN job \cup {"description", "required_skills"} |->
        IF k = "description"
        THEN aggressive_description_formatting(Get(job, "description", ""))
        ELSE IF k = "required_skills"
        THEN aggressive_skills_formatting(Get(job, "required_skills", ""))
        ELSE job[k]]

format_job_data(jobs) == [i \in 1..Len(jobs) |-> format_job(jobs[i])]

(***************************************************************************)
(* MilvusService.add_jobs                                                  *)
(***************************************************************************)

\* The composite text a job is embedded by (salary_range is not part of it).
JobText(job) ==
    <<Get(job, "job_title", ""), Get(job, "company", ""),
      Get(job, "description", ""), Get(job, "required_skills", ""),
      Get(job, "experience_level", ""), Get(job, "education_requirements", ""),
      Get(job, "location", "")>>

JobRow(id, job, embedding) ==
    [company |-> Get(job, "company", ""),
     description |-> Get(job, "description", ""),
     education_requirements |-> Get(job, "education_requirements", ""),
     experience_level |-> Get(job, "experience_level", ""),
     id |-> id,
     job_title |-> Get(job, "job_title", ""),
     location |-> Get(job, "location", ""),
     required_skills |-> Get(job, "required_skills", ""),
     salary_range |-> Get(job, "salary_range", ""),
     vector |-> embedding]

\* zip(a, b) stops at the shorter of the two
ZipLen(a, b) == Min(Len(a), Len(b))

\* (mutant) the embeddings paired with the jobs in reverse order
AddJobsDataMisaligned(jobs, base) ==
    LET formatted_jobs == format_job_data(jobs)
        texts == [i \in 1..Len(formatted_jobs) |-> JobText(formatted_jobs[i])]
        embeddings == generate_embeddings(texts)
        n == ZipLen(formatted_jobs, embeddings)
    IN  [i \in 1..n |-> JobRow(base + i, formatted_jobs[i], embeddings[n + 1 - i])]

\* (mutant) the ids taken from the position in the batch alone
AddJobsDataBatchIds(jobs, base) ==
    LET formatted_jobs == format_job_data(jobs)
        texts == [i \in 1..Len(formatted_jobs) |-> JobText(formatted_jobs[i])]
        embeddings == generate_embeddings(texts)
    IN  [i \in 1..ZipLen(formatted_jobs, embeddings) |->
            JobRow(i, formatted_jobs[i], embeddings[i])]

\* The rows add_jobs builds: lines 109-144. base is the number of ids handed
\* out before the call.
AddJobsData(jobs, base) ==
    LET formatted_jobs == format_job_data(jobs)
        texts == [i \in 1..Len(formatted_jobs) |-> JobText(formatted_jobs[i])]
        embeddings == generate_embeddings(texts)
    IN  [i \in 1..ZipLen(formatted_jobs, embeddings) |->
            JobRow(base + i, formatted_jobs[i], embeddings[i])]

\* (mutant) the empty-list test placed after the embedding step
add_jobs_embeds_first(svc, jobs, fault) ==
    LET data == AddJobsData(jobs, next_id)
        raised == AddJobsRaises(svc, data, fault)
    IN  /\ call' = [fault |-> fault, svc |-> svc]
        /\ get_embedding_model(svc)
        /\ IF jobs = <<>>
           THEN /\ ret' = [arg |-> jobs, error |-> FALSE, op |-> "add_jobs",
                           value |-> [message |-> "No jobs to add"]]
                /\ UNCHANGED <<rows, next_id, insert_calls>>
           ELSE IF raised # "none"
           THEN /\ ret' = [arg |-> jobs, error |-> TRUE, op |-> "add_jobs",
                           value |-> raised]
                /\ UNCHANGED <<rows, next_id, insert_calls>>
           ELSE /\ insert_calls < MaxAdds
                /\ ret' = [arg |-> jobs, error |-> FALSE, op |-> "add_jobs",
                           value |-> [inserted_count |-> Len(data)]]
                /\ rows' = ClientInsert(rows, data)
                /\ next_id' = next_id + Len(data)
                /\ insert_calls' = insert_calls + 1
        /\ UNCHANGED <<client, connects, model_dim, collection, enc>>
        /\ UNCHANGED chunkVars
        /\ UNCHANGED appVars

\* add_jobs on the service object svc; fault is the failure client.insert
\* meets ("none" or "store"). A raise is recorded as error with the kind of
\* the exception as value.
add_jobs(svc, jobs, fault) ==
    /\ call' = [fault |-> fault, svc |-> svc]
    /\ IF jobs = <<>>
       THEN /\ ret' = [arg |-> jobs, error |-> FALSE, op |-> "add_jobs",
                       value |-> [message |-> "No jobs to add"]]
            /\ UNCHANGED <<rows, next_id, insert_calls, embedding_model, loads>>
       ELSE LET data == AddJobsData(jobs, next_id)
                raised == AddJobsRaises(svc, data, fault)
            IN  /\ get_embedding_model(svc)
                /\ IF raised # "none"
                   THEN /\ ret' = [arg |-> jobs, error |-> TRUE, op |-> "add_jobs",
                                   value |-> raised]
                        /\ UNCHANGED <<rows, next_id, insert_calls>>
                   ELSE /\ insert_calls < MaxAdds
                        /\ ret' = [arg |-> jobs, error |-> FALSE, op |-> "add_jobs",
                                   value |-> [inserted_count |-> Len(data)]]
                        /\ rows' = ClientInsert(rows, data)
                        /\ next_id' = next_id + Len(data)
                        /\ insert_calls' = insert_calls + 1
    /\ UNCHANGED <<client, connects, model_dim, collection, enc>>
    /\ UNCHANGED chunkVars
    /\ UNCHANGED appVars

(***************************************************************************)
(* MilvusService.add_documents, the document variant of the service: it    *)
(* embeds each chunk's text and inserts one row per chunk in one call.     *)
(***************************************************************************)
ChunkRow(id, chunk, embedding) ==
    [chunk_index |-> chunk["chunk_index"], filename |-> chunk["filename"],
     id |-> id, text |-> chunk["text"], vector |-> embedding]

AddDocumentsData(chunks_in, base) ==
    LET texts == [i \in 1..Len(chunks_in) |-> chunks_in[i]["text"]]
        embeddings == generate_embeddings(texts)
    IN  [i \in 1..ZipLen(chunks_in, embeddings) |->
            ChunkRow(base + i, chunks_in[i], embeddings[i])]

add_documents(chunks_in) ==
    /\ ret' = [arg |-> chunks_in, error |-> FALSE, op |-> "add_documents",
               value |-> IF chunks_in = <<>> THEN [message |-> "No chunks to add"]
                         ELSE [inserted_count |->
                                  Len(AddDocumentsData(chunks_in, next_id))]]
    /\ IF chunks_in = <<>>
       THEN UNCHANGED <<rows, next_id, insert_calls>>
       ELSE LET data == AddDocumentsData(chunks_in, next_id)
            IN  /\ insert_calls < MaxAdds
                /\ rows' = ClientInsert(rows, data)
                /\ next_id' = next_id + Len(data)
                /\ insert_calls' = insert_calls + 1
    /\ UNCHANGED svcVars
    /\ UNCHANGED chunkVars
    /\ UNCHANGED appVars

(***************************************************************************)
(* MilvusService.list_documents                                            *)
(***************************************************************************)
QueryLimit == 1000

\* The loop over results, lines 291-296, in closed form: the dict `files`
\* gets a key per distinct filename, in order of first occurrence, and counts
\* the results that carry it. Returned as list(files.values()).
FirstAt(results, fname) ==
    CHOOSE i \in 1..Len(results) :
        /\ results[i]["filename"] = fname
        /\ \A j \in 1..(i - 1) : results[j]["filename"] # fname

\* (mutant) the count set to 1 instead of incremented
ChunkCountReset(results, fname) == 1

ChunkCount(results, fname) ==
    Cardinality({i \in 1..Len(results) : results[i]["filename"] = fname})

GroupByFilename(results) ==
    LET names == {results[i]["filename"] : i \in 1..Len(results)}
        first == [f \in names |-> FirstAt(results, f)]
        nth(k) == CHOOSE f \in names :
                      Cardinality({g \in names : first[g] < first[f]}) = k - 1
    IN  [k \in 1..Cardinality(names) |->
            [chunk_count |-> ChunkCount(results, nth(k)), filename |-> nth(k)]]

ListDocumentsValue(coll) ==
    GroupByFilename(ClientQuery(coll, QueryLimit))

list_documents(svc, fault) ==
    /\ call' = [fault |-> fault, svc |-> svc]
    /\ ret' = IF ClientRaises(svc, fault) # "none"
              THEN [arg |-> <<>>, error |-> TRUE, op |-> "list_documents",
                    value |-> ClientRaises(svc, fault)]
              ELSE [arg |-> <<>>, error |-> FALSE, op |-> "list_documents",
                    value |-> ListDocumentsValue(rows)]
    /\ UNCHANGED <<rows, next_id, insert_calls>>
    /\ UNCHANGED <<client, connects, embedding_model, loads, model_dim,
                   collection, enc>>
    /\ UNCHANGED chunkVars
    /\ UNCHANGED appVars

(***************************************************************************)
(* MilvusService.delete_document                                           *)
(***************************************************************************)
DeleteOutcome(coll, fname) ==
    LET flt == ParseFilter(DeleteFilter(fname))
    IN  IF flt.ok
        THEN [error |-> FALSE, rows |-> ClientDelete(coll, flt)]
        ELSE [error |-> TRUE, rows |-> coll]   \* the client raises; re-raised

delete_document(svc, fname, fault) ==
    LET out == IF ClientRaises(svc, fault) # "none"
               THEN [error |-> TRUE, rows |-> rows]
               ELSE DeleteOutcome(rows, fname)
    IN  /\ call' = [fault |-> fault, svc |-> svc]
        /\ rows' = out.rows
        /\ ret' = [arg |-> fname, error |-> out.error,
                   op |-> "delete_document",
                   value |-> IF ~out.error THEN <<>>
                             ELSE IF Connected(svc) THEN "MilvusException"
                             ELSE "AttributeError"]
        /\ UNCHANGED <<next_id, insert_calls>>
        /\ UNCHANGED <<client, connects, embedding_model, loads, model_dim,
                       collection, enc>>
        /\ UNCHANGED chunkVars
        /\ UNCHANGED appVars

(***************************************************************************)
(* MilvusService.get_collection_info                                       *)
(***************************************************************************)
CountLimit == 16384

\* client.get_collection_stats(...)["row_count"]: the rows the store holds
StatsRowCount(coll) == Len(coll)

\* The count of lines 336-351. fault is the failure the client meets:
\* "query" fails the scan, "stats" fails the scan and the stats call.
ActualCount(coll, fault) ==
    IF fault = "none" THEN Len(ClientQuery(coll, CountLimit))
    ELSE IF fault = "query" THEN StatsRowCount(coll)
    ELSE 0

\* fault "probe" fails has_collection. Every exception up to the probe,
\* the AttributeError of a service without client included, is caught at
\* line 359 and returned as a dict.
GetCollectionInfoValue(svc, coll, fault) ==
    IF ~Connected(svc) THEN [error |-> "AttributeError"]
    ELSE IF fault = "probe" THEN [error |-> "MilvusException"]
    ELSE IF ~collection.exists THEN [error |-> "does not exist"]
    ELSE [base_name |-> "hrsd", collection_name |-> "hrsd", prefix |-> "hrsd",
          row_count |-> ActualCount(coll, fault)]

get_collection_info(svc, fault) ==
    /\ call' = [fault |-> fault, svc |-> svc]
    /\ ret' = [arg |-> <<>>, error |-> FALSE, op |-> "get_collection_info",
               value |-> GetCollectionInfoValue(svc, rows, fault)]
    /\ UNCHANGED <<rows, next_id, insert_calls>>
    /\ UNCHANGED <<client, connects, embedding_model, loads, model_dim,
                   collection, enc>>
    /\ UNCHANGED chunkVars
    /\ UNCHANGED appVars

(***************************************************************************)
(* SpecStore: the collection under any sequence of service calls.          *)
(***************************************************************************)
NoCall == [arg |-> <<>>, error |-> FALSE, op |-> "none", value |-> <<>>]

\* app.py before any chat input: st.session_state.messages = [] (line 422)
NoResult == [raised |-> FALSE, response |-> <<>>, sources |-> <<>>]

ChatIdle ==
    [at |-> "idle", chat_history |-> 0, docs |-> <<>>, error |-> "none",
     fault |-> "none", generated |-> 0, history |-> 0, result |-> NoResult]

\* the concurrent requests (or sessions) that upload
Handlers == {1, 2}

UploadIdle ==
    [at |-> "idle", fault |-> "none", kind |-> "none", name |-> "", path |-> <<>>]

AppIdle ==
    /\ chat = ChatIdle
    /\ upload = [h \in Handlers |-> UploadIdle]
    /\ temp_files = {}
    /\ temp_count = 0

ChunkIdle ==
    /\ pc = "off"
    /\ text = [pad |-> 0, words |-> <<>>]
    /\ chunk_file = <<>>
    /\ iters = 0
    /\ words = <<>>
    /\ chunk_size = 1000
    /\ chunk_overlap = 200
    /\ start = 0
    /\ chunk_index = 0
    /\ chunks = <<>>

\* No thread is inside _generate_embeddings.
EncIdle == [at |-> "idle", svc |-> 0, used |-> 0]

\* The service objects as constructed (lines 11-17), nothing connected,
\* nothing created, no model loaded; the model named by EMBEDDING_MODEL has
\* vectors of length dim.
ServicesNew(dim) ==
    /\ call = [fault |-> "none", svc |-> 0]
    /\ client = [svc \in Services |-> "none"]
    /\ connects = [svc \in Services |-> 0]
    /\ embedding_model = [svc \in Services |-> 0]
    /\ loads = <<>>
    /\ model_dim = dim
    /\ collection = NoCollection
    /\ enc = [t \in Threads |-> EncIdle]

\* The process after startup_event and a first use of both service objects:
\* both connected, the collection created, each with its model loaded.
ServicesWarm ==
    /\ call = [fault |-> "none", svc |-> 0]
    /\ client = [svc \in Services |-> "connected"]
    /\ connects = [svc \in Services |-> 1]
    /\ embedding_model = [svc \in Services |-> svc]
    /\ loads = <<Api, Embedder>>
    /\ model_dim = Dimension
    /\ collection = [creates |-> 1, dim |-> Dimension, drops |-> 0, exists |-> TRUE]
    /\ enc = [t \in Threads |-> EncIdle]

InitStore ==
    /\ rows = <<>>
    /\ next_id = 0
    /\ insert_calls = 0
    /\ ret = NoCall
    /\ ServicesWarm
    /\ ChunkIdle
    /\ AppIdle

AddJobs == \E jobs \in JobLists : add_jobs(Embedder, jobs, "none")

AddDocuments ==
    \/ add_documents(<<>>)
    \/ \E f \in FileNames, n \in BatchSizes : add_documents(Batch(f, n))

ListDocuments == list_documents(Api, "none")

DeleteDocument == \E f \in FileNames : delete_document(Api, f, "none")

InfoFaults == {"none", "probe", "query", "stats"}

NextStore ==
    AddJobs \/ AddDocuments \/ ListDocuments \/ DeleteDocument

SpecStore == InitStore /\ [][NextStore]_vars

(***************************************************************************)
(* Claims about the collection, checked under SpecStore.                   *)
(***************************************************************************)
HasFilename(row, fname) == "filename" \in DOMAIN row /\ row["filename"] = fname

\* The filenames of the stored rows, and the number of rows of one of them.
StoredFilenames(coll) ==
    {coll[i]["filename"] : i \in {j \in 1..Len(coll) : "filename" \in DOMAIN coll[j]}}

StoredCount(coll, fname) ==
    Cardinality({i \in 1..Len(coll) : HasFilename(coll[i], fname)})

StoredChunkRows(coll) ==
    Cardinality({i \in 1..Len(coll) : "chunk_index" \in DOMAIN coll[i]})

Listed(value, fname) == {k \in 1..Len(value) : value[k].filename = fname}

\* C1: delete_document(f) succeeds, removes exactly the rows whose filename
\* is f (all of them, and no other row, the rest unchanged and in place),
\* also when no row matches; afterwards list_documents has no entry for f
\* and no row of f is left for a search to return.
C1_DeleteExact ==
    [][ ret'.op = "delete_document" =>
          LET f == ret'.arg
          IN  /\ ret'.error = FALSE
              /\ rows' = SelectSeq(rows, LAMBDA r : ~HasFilename(r, f))
              /\ Listed(ListDocumentsValue(rows'), f) = {}
              /\ \A i \in 1..Len(rows') : ~HasFilename(rows'[i], f) ]_vars

C3_AddOneBatch ==
    [][ (ret'.op \in {"add_jobs", "add_documents"} /\ ret'.arg # <<>>) =>
          LET recs == ret'.arg
              n == Len(recs)
              old == Len(rows)
          IN  /\ insert_calls' = insert_calls + 1
              /\ Len(rows') = old + n
              /\ SubSeq(rows', 1, old) = rows
              /\ ret'.value = [inserted_count |-> n]
              /\ \A i \in 1..n :
                    LET row == rows'[old + i]
                    IN  IF ret'.op = "add_jobs"
                        THEN /\ row.job_title = Get(recs[i], "job_title", "")
                             /\ row.salary_range = Get(recs[i], "salary_range", "")
                             /\ row.vector = Vec(JobText(format_job(recs[i])))
                        ELSE /\ row.filename = recs[i]["filename"]
                             /\ row.chunk_index = recs[i]["chunk_index"]
                             /\ row.vector = Vec(recs[i]["text"]) ]_vars

\* An add of two different jobs onto a non-empty collection has returned.
C3_Witness ==
    /\ ret.op = "add_jobs"
    /\ Len(ret.arg) = 2
    /\ ret.arg[1] # ret.arg[2]
    /\ ret.value = [inserted_count |-> 2]
    /\ Len(rows) > 2
    /\ insert_calls = 2

(***************************************************************************)
(* DocumentProcessor: set_chunk_parameters and _chunk_text.                *)
(*                                                                         *)
(* A text is its words (each by its number of characters, none of them     *)
(* whitespace), joined by single spaces, plus `pad` further whitespace     *)
(* characters: "" is no words and no pad, "  " is no words and some pad.   *)
(***************************************************************************)
WordLens == {24, 25, 51}

RECURSIVE SeqsUpTo(_, _)
SeqsUpTo(S, n) ==
    IF n = 0 THEN { <<>> }
    ELSE LET shorter == SeqsUpTo(S, n - 1)
         IN  shorter \cup {Append(q, x) : q \in shorter, x \in S}

\* Texts longer than one default window (200 words): the i-th word has i
\* characters, so that no two words of a text are alike.
LongLens == {201, 361}

LongTexts == {[pad |-> 0, words |-> [i \in 1..n |-> i]] : n \in LongLens}

Texts ==
    {[pad |-> p, words |-> w] : p \in {0, 1}, w \in SeqsUpTo(WordLens, MaxWords)}
        \cup LongTexts

\* the values given to set_chunk_parameters
ChunkSizes == {4, 5, 10, 500}
ChunkOverlaps == {0, 5, 10, 20}

\* len(' '.join(ws))
RECURSIVE SumSeq(_)
SumSeq(ws) ==
    IF ws = <<>> THEN 0
    ELSE IF Len(ws) = 1 THEN ws[1]
    ELSE LET half == Len(ws) \div 2
         IN  SumSeq(SubSeq(ws, 1, half)) + SumSeq(SubSeq(ws, half + 1, Len(ws)))

JoinLen(ws) == IF ws = <<>> THEN 0 ELSE SumSeq(ws) + (Len(ws) - 1)

\* len(text)
TextLen(t) == JoinLen(t.words) + t.pad

\* text.split()
Split(t) == t.words

\* Python's list[a:b]
SliceIndex(i, n) == IF i < 0 THEN Max(i + n, 0) ELSE Min(i, n)

PySlice(list, a, b) ==
    LET lo == SliceIndex(a, Len(list))
        hi == SliceIndex(b, Len(list))
    IN  IF lo >= hi THEN <<>> ELSE SubSeq(list, lo + 1, hi)

MinChunkChars == 50

\* (mutant) the minimum taken as inclusive
IsMeaningfulInclusive(chunk_words) == JoinLen(chunk_words) >= MinChunkChars

\* len(chunk_text.strip()) > 50; a join of words has nothing to strip
IsMeaningful(chunk_words) == JoinLen(chunk_words) > MinChunkChars

\* (mutant) chunk_index += 1 after the `if`, once per window
NextChunkIndexPerWindow(index, emitted) == index + 1

\* chunk_index += 1 inside the `if`
NextChunkIndex(index, emitted) == IF emitted THEN index + 1 ELSE index

\* (mutant) the overlap added instead of subtracted
NextStartForward(end, words_overlap) == end + words_overlap

\* (mutant) the next window starts where this one ended
NextStartNoOverlap(end, words_overlap) == end

\* start = end - words_overlap
NextStart(end, words_overlap) == end - words_overlap

\* set_chunk_parameters(chunk_size, chunk_overlap): accepts any pair
set_chunk_parameters(size, overlap) ==
    /\ pc = "idle"
    /\ chunk_size' = size
    /\ chunk_overlap' = overlap
    /\ UNCHANGED <<pc, text, chunk_file, words, start, chunk_index, chunks, iters>>
    /\ UNCHANGED storeVars
    /\ UNCHANGED svcVars
    /\ UNCHANGED appVars

\* _chunk_text, lines 74-85: the early return and the locals
ChunkTextEnter ==
    /\ pc = "idle"
    /\ IF TextLen(text) = 0
       THEN /\ pc' = "done"
            /\ UNCHANGED <<words, start, chunk_index, chunks>>
       ELSE /\ pc' = "loop"
            /\ words' = Split(text)
            /\ start' = 0
            /\ chunk_index' = 0
            /\ chunks' = <<>>
    /\ UNCHANGED <<text, chunk_file, chunk_size, chunk_overlap, iters>>
    /\ UNCHANGED storeVars
    /\ UNCHANGED svcVars
    /\ UNCHANGED appVars

\* one iteration of the while loop, lines 87-107
ChunkLoop ==
    /\ pc = "loop"
    /\ start < Len(words)
    /\ iters < MaxIters
    /\ LET words_per_chunk == chunk_size \div 5
           words_overlap == chunk_overlap \div 5
           end == start + words_per_chunk
           chunk_words == PySlice(words, start, end)
           emitted == IsMeaningful(chunk_words)
       IN  /\ chunks' = IF emitted
                        THEN Append(chunks, [chunk_index |-> chunk_index,
                                             filename |-> chunk_file,
                                             text |-> chunk_words])
                        ELSE chunks
           /\ chunk_index' = NextChunkIndex(chunk_index, emitted)
           /\ start' = NextStart(end, words_overlap)
           /\ pc' = IF end >= Len(words) THEN "done" ELSE "loop"
    /\ iters' = iters + 1
    /\ UNCHANGED <<text, chunk_file, words, chunk_size, chunk_overlap>>
    /\ UNCHANGED storeVars
    /\ UNCHANGED svcVars
    /\ UNCHANGED appVars

\* the while condition is false: return chunks
ChunkReturn ==
    /\ pc = "loop"
    /\ ~(start < Len(words))
    /\ pc' = "done"
    /\ UNCHANGED <<text, chunk_file, words, chunk_size, chunk_overlap, start,
                   chunk_index, chunks, iters>>
    /\ UNCHANGED storeVars
    /\ UNCHANGED svcVars
    /\ UNCHANGED appVars

StoreIdle ==
    /\ rows = <<>>
    /\ next_id = 0
    /\ insert_calls = 0
    /\ ret = NoCall
    /\ ServicesNew(Dimension)

\* A processor as constructed (chunk_size 1000, chunk_overlap 200), about to
\* chunk some text.
InitChunk ==
    /\ StoreIdle
    /\ AppIdle
    /\ pc = "idle"
    /\ text \in Texts
    /\ chunk_file \in {<<"a">>, <<"b">>}
    /\ words = <<>>
    /\ chunk_size = 1000
    /\ chunk_overlap = 200
    /\ start = 0
    /\ chunk_index = 0
    /\ chunks = <<>>
    /\ iters = 0

SetChunkParameters ==
    \E size \in ChunkSizes, overlap \in ChunkOverlaps :
        set_chunk_parameters(size, overlap)

NextChunk == SetChunkParameters \/ ChunkTextEnter \/ ChunkLoop \/ ChunkReturn

SpecChunk == InitChunk /\ [][NextChunk]_vars

(***************************************************************************)
(* Claims about the chunker, checked under SpecChunk.                      *)
(***************************************************************************)

\* C4: _chunk_text terminates for every text and every pair of parameters
\* set_chunk_parameters accepts. An iteration that does not break leaves
\* end < len(words), so the call returns only if start moves forward by at
\* least one word per iteration: a call that terminates makes at most
\* max(1, len(words)) iterations. The property states that bound.
C4_Terminates == iters <= Max(1, Len(words))

\* C5: every emitted chunk is longer than 50 characters; the empty text
\* and a text of at most 50 characters yield no chunk.
C5_ChunksAboveMinimum ==
    /\ \A k \in 1..Len(chunks) : JoinLen(chunks[k].text) > 50
    /\ (pc = "done" /\ TextLen(text) = 0) => chunks = <<>>
    /\ (pc = "done" /\ TextLen(text) <= 50) => chunks = <<>>

\* A call has returned chunks after dropping at least one window.
C5_Witness ==
    /\ pc = "done"
    /\ chunks # <<>>
    /\ Len(chunks) < iters

\* C6: the chunk_index values of the chunks are 0, 1, ..., k-1 in emission
\* order, whatever windows were dropped in between.
C6_DenseIndices ==
    \A k \in 1..Len(chunks) : chunks[k].chunk_index = k - 1

\* A call has returned two chunks or more, with a dropped window before the
\* last of them.
C6_Witness ==
    /\ pc = "done"
    /\ Len(chunks) >= 2
    /\ Len(chunks) < iters
    /\ IsMeaningful(PySlice(words, Len(words) - 1, Len(words)))

(***************************************************************************)
(* MilvusService.search_jobs and _llm_rescore_matches.                     *)
(*                                                                         *)
(* SpecSearch fixes one query (cv_text). A stored vector is represented by *)
(* the raw value the index reports for it against the query's embedding,   *)
(* which the service reads as a distance; the unit is 1/10000. A           *)
(* match_score is a whole number of tenths of a percent (763 is 76.3).     *)
(***************************************************************************)

\* round(x, 1) of x given as num/scale: the nearest tenth, in tenths. (The
\* model's values are never halfway between two tenths.)
RoundTenths(num, scale) == (num * 20 + scale) \div (2 * scale)

\* (mutant) the score without the clamp at 0
BaseScoreUnclamped(distance) == RoundTenths(10000 - distance, 100)

\* base_score = max(0, (1 - distance) * 100); round(base_score, 1)
BaseScore(distance) == RoundTenths(Max(0, 10000 - distance), 100)

\* client.search(limit=top_k): the top_k nearest rows, nearest first (rows
\* at the same distance in storage order), each hit with id, distance and
\* the output fields.
\* The value the index gives a stored vector against the query vector, in
\* 1/10000. A vector is stored either with that value, <<"at", d>>, or as
\* the embedding of a text, whose value the model takes as 0.5.
TextDistance == 5000

Distance(v) == IF Len(v) = 2 THEN v[2] ELSE TextDistance

Nearer(coll, i, j) ==
    \/ Distance(coll[i].vector) < Distance(coll[j].vector)
    \/ Distance(coll[i].vector) = Distance(coll[j].vector) /\ i < j

RankOf(coll, i) == 1 + Cardinality({j \in 1..Len(coll) : Nearer(coll, j, i)})

\* (mutant) the limit not passed on: every row is a hit
ClientSearchNoLimit(coll, top_k) ==
    [r \in 1..Len(coll) |->
        LET i == CHOOSE x \in 1..Len(coll) : RankOf(coll, x) = r
        IN  [distance |-> Distance(coll[i].vector),
             entity |-> [k \in DOMAIN coll[i] \ {"id", "vector"} |-> coll[i][k]],
             id |-> coll[i].id]]

ClientSearch(coll, top_k) ==
    [r \in 1..Min(top_k, Len(coll)) |->
        LET i == CHOOSE x \in 1..Len(coll) : RankOf(coll, x) = r
        IN  [distance |-> Distance(coll[i].vector),
             entity |-> [k \in DOMAIN coll[i] \ {"id", "vector"} |-> coll[i][k]],
             id |-> coll[i].id]]

\* lines 176-195: one job per hit, with the vector-derived score
JobOfHit(hit) ==
    [company |-> Get(Get(hit, "entity", <<>>), "company", ""),
     description |-> Get(Get(hit, "entity", <<>>), "description", ""),
     education_requirements |->
         Get(Get(hit, "entity", <<>>), "education_requirements", ""),
     experience_level |-> Get(Get(hit, "entity", <<>>), "experience_level", ""),
     id |-> Get(hit, "id", "unknown"),
     job_title |-> Get(Get(hit, "entity", <<>>), "job_title", ""),
     location |-> Get(Get(hit, "entity", <<>>), "location", ""),
     match_score |-> BaseScore(Get(hit, "distance", 10000)),
     required_skills |-> Get(Get(hit, "entity", <<>>), "required_skills", ""),
     salary_range |-> Get(Get(hit, "entity", <<>>), "salary_range", "")]

BaseJobs(coll, top_k) ==
    LET hits == ClientSearch(coll, top_k)
    IN  [i \in 1..Len(hits) |-> JobOfHit(hits[i])]

(***************************************************************************)
(* The Generator's response is a string over a small alphabet: brackets,   *)
(* the digit 1, a run of 310 digits 9 (written as one symbol: an integer   *)
(* of that many digits is beyond the range of a float), comma, dot, blank, *)
(* and "-" for every character outside the character class of the         *)
(* pattern.                                                                *)
(***************************************************************************)
Nines == "9x310"
Digits == {"1", Nines}
Alphabet == {"[", "]", "1", Nines, ",", ".", " ", "-"}

\* float('inf') as a score in tenths: above every finite score of the model
Inf == 1000000000

HasNines(str) == \E i \in 1..Len(str) : str[i] = Nines

\* the class [\d\.,\s] of the pattern
InScoreClass(c) == c \in Digits \cup {".", ",", " "}

\* the first position after i that is outside the class (Len + 1 if none)
RECURSIVE RunEnd(_, _)
RunEnd(resp, i) ==
    IF i + 1 > Len(resp) THEN Len(resp) + 1
    ELSE IF InScoreClass(resp[i + 1]) THEN RunEnd(resp, i + 1)
    ELSE i + 1

MatchAt(resp, i) ==
    /\ resp[i] = "["
    /\ RunEnd(resp, i) <= Len(resp)
    /\ RunEnd(resp, i) > i + 1
    /\ resp[RunEnd(resp, i)] = "]"

\* re.search(r'\[[\d\.,\s]+\]', response): the leftmost match, or <<>>
RegexSearch(resp) ==
    IF \E i \in 1..Len(resp) : MatchAt(resp, i)
    THEN LET i == CHOOSE x \in 1..Len(resp) :
                      MatchAt(resp, x) /\ \A y \in 1..(x - 1) : ~MatchAt(resp, y)
         IN  SubSeq(resp, i, RunEnd(resp, i))
    ELSE <<>>

\* str.strip of blanks
RECURSIVE Strip(_)
Strip(str) ==
    IF str = <<>> THEN str
    ELSE IF Head(str) = " " THEN Strip(Tail(str))
    ELSE IF str[Len(str)] = " " THEN Strip(SubSeq(str, 1, Len(str) - 1))
    ELSE str

\* str.split(",")
RECURSIVE SplitComma(_)
SplitComma(str) ==
    LET c == FindChar(str, ",", 1)
    IN  IF c = 0 THEN <<str>>
        ELSE <<SubSeq(str, 1, c - 1)>> \o SplitComma(SubSeq(str, c + 1, Len(str)))

AllDigits(str) == str # <<>> /\ \A i \in 1..Len(str) : str[i] \in Digits

\* a JSON number without sign or exponent: digits, then maybe "." digits
IsJsonNumber(tok) ==
    LET d == FindChar(tok, ".", 1)
    IN  IF d = 0 THEN AllDigits(tok)
        ELSE /\ AllDigits(SubSeq(tok, 1, d - 1))
             /\ AllDigits(SubSeq(tok, d + 1, Len(tok)))

\* the value of a string of digits 1
RECURSIVE DigitsValue(_)
DigitsValue(str) ==
    IF str = <<>> THEN 0
    ELSE DigitsValue(SubSeq(str, 1, Len(str) - 1)) * 10 + 1

RECURSIVE Pow10(_)
Pow10(n) == IF n = 0 THEN 1 ELSE 10 * Pow10(n - 1)

\* The number json.loads makes of a token, as num/scale with its kind:
\*   "bigint"  an int of more than 309 digits (float() of it overflows),
\*   "inf"     a float literal whose integer part has more than 309 digits,
\*   "finite"  any other; a run of nines in the fraction reads, as a float,
\*             as the digits before it plus one in their last place.
JsonNumber(tok) ==
    LET d == FindChar(tok, ".", 1)
        whole == IF d = 0 THEN tok ELSE SubSeq(tok, 1, d - 1)
        frac == IF d = 0 THEN <<>> ELSE SubSeq(tok, d + 1, Len(tok))
        n == FindChar(frac, Nines, 1)
        kept == IF n = 0 THEN frac ELSE SubSeq(frac, 1, n - 1)
    IN  IF HasNines(whole)
        THEN [kind |-> IF d = 0 THEN "bigint" ELSE "inf", num |-> 0, scale |-> 1]
        ELSE [kind |-> "finite",
              num |-> DigitsValue(whole \o kept) + (IF n = 0 THEN 0 ELSE 1),
              scale |-> Pow10(Len(kept))]

\* round(float(score), 1) of a score float() accepts, in tenths
ScoreTenths(score) ==
    IF score.kind = "finite" THEN RoundTenths(score.num, score.scale) ELSE Inf

\* (mutant) a lenient reading: the items that are numbers, the others skipped
JsonLoadsLenient(matched) ==
    LET body == Strip(SubSeq(matched, 2, Len(matched) - 1))
        toks == SplitComma(body)
        items == SelectSeq([i \in 1..Len(toks) |-> Strip(toks[i])], IsJsonNumber)
    IN  [ok |-> TRUE, scores |-> [i \in 1..Len(items) |-> JsonNumber(items[i])]]

\* json.loads of the matched text "[" ... "]": the list of numbers, or an
\* error (ValueError) when the text is no JSON array
JsonLoads(matched) ==
    LET body == Strip(SubSeq(matched, 2, Len(matched) - 1))
        toks == SplitComma(body)
        items == [i \in 1..Len(toks) |-> Strip(toks[i])]
    IN  IF body = <<>> THEN [ok |-> TRUE, scores |-> <<>>]
        ELSE IF \A i \in 1..Len(items) : IsJsonNumber(items[i])
        THEN [ok |-> TRUE, scores |-> [i \in 1..Len(items) |-> JsonNumber(items[i])]]
        ELSE [ok |-> FALSE, scores |-> <<>>]

\* lines 265-267: job['match_score'] = round(float(scores[i]), 1) for
\* i < len(scores), job by job, in place. float() of an int beyond the float
\* range raises OverflowError: the loop stops there, and the handler at
\* line 275 returns the list as the loop left it.
ApplyScores(jobs, scores) ==
    LET n == Min(Len(jobs), Len(scores))
        raising == {i \in 1..n : scores[i].kind = "bigint"}
        stop == IF raising = {} THEN n + 1
                ELSE CHOOSE i \in raising : \A j \in raising : i <= j
    IN  [i \in 1..Len(jobs) |->
            IF i < stop
            THEN [jobs[i] EXCEPT !.match_score = ScoreTenths(scores[i])]
            ELSE jobs[i]]

\* _llm_rescore_matches: gen is the outcome of generate_response, a
\* response text or a failure (an exception, caught at line 275)
llm_rescore_matches(jobs, gen) ==
    IF ~gen.ok THEN jobs
    ELSE LET json_match == RegexSearch(gen.response)
         IN  IF json_match # <<>>
             THEN LET loaded == JsonLoads(json_match)
                  IN  IF loaded.ok THEN ApplyScores(jobs, loaded.scores)
                      ELSE jobs          \* json.loads raises: caught, original jobs
             ELSE jobs

\* search_jobs up to `await self._llm_rescore_matches(cv_text, jobs)`, which
\* suspends at `await groq_service.generate_response(prompt, [])` (line 253):
\* the vector search is done, the jobs carry their base scores
search_jobs(svc, top_k, fault) ==
    /\ call' = [fault |-> fault, svc |-> svc]
    /\ get_embedding_model(svc)
    /\ ret' = IF SearchJobsRaises(svc, fault) # "none"
              THEN [arg |-> [top_k |-> top_k], error |-> TRUE,
                    op |-> "search_jobs", value |-> SearchJobsRaises(svc, fault)]
              ELSE [arg |-> [top_k |-> top_k], error |-> FALSE,
                    op |-> "search_jobs:await", value |-> BaseJobs(rows, top_k)]
    /\ UNCHANGED <<rows, next_id, insert_calls>>
    /\ UNCHANGED <<client, connects, model_dim, collection, enc>>
    /\ UNCHANGED chunkVars
    /\ UNCHANGED appVars

\* the Generator's outcome arrives: lines 253-277, then `return jobs` (line 200)
search_jobs_resume(gen) ==
    /\ ret' = [arg |-> [response |-> gen, top_k |-> ret.arg.top_k], error |-> FALSE,
               op |-> "search_jobs", value |-> llm_rescore_matches(ret.value, gen)]
    /\ UNCHANGED <<rows, next_id, insert_calls>>
    /\ UNCHANGED svcVars
    /\ UNCHANGED chunkVars
    /\ UNCHANGED appVars

(***************************************************************************)
(* SpecSearch: one search of a collection of jobs, in its two steps: up to *)
(* the await of the Generator, and from the Generator's outcome to the     *)
(* return. (A search changes nothing a later search reads, so the          *)
(* specification follows one call.)                                        *)
(***************************************************************************)
Responses == SeqsUpTo(Alphabet, MaxResp)

GeneratorOutcomes ==
    {[ok |-> TRUE, response |-> r] : r \in Responses}
        \cup {[ok |-> FALSE, response |-> <<>>]}

\* the raw values of the stored vectors against the query (1.2, 1, 0.2371, 0),
\* in storage order; a collection of one vector opposed to the query (-0.5)
DistanceLists == { <<12000, 10000, 2371, 0>>, <<-5000>> }

TopKs == {2, 10}

JobCollection(ds) ==
    [i \in 1..Len(ds) |->
        JobRow(i, format_job(IF i % 2 = 1 THEN Job1 ELSE Job2), <<"at", ds[i]>>)]

InitSearch ==
    /\ \E ds \in DistanceLists : rows = JobCollection(ds)
    /\ next_id = Len(rows)
    /\ insert_calls = 0
    /\ ret = NoCall
    /\ ServicesWarm
    /\ ChunkIdle
    /\ AppIdle

SearchJobs ==
    /\ ret = NoCall
    /\ \E top_k \in TopKs : search_jobs(Api, top_k, "none")

SearchJobsResume ==
    /\ ret.op = "search_jobs:await"
    /\ \E gen \in GeneratorOutcomes : search_jobs_resume(gen)

NextSearch == SearchJobs \/ SearchJobsResume

SpecSearch == InitSearch /\ [][NextSearch]_vars

(***************************************************************************)
(* Claims about search_jobs, checked under SpecSearch.                     *)
(***************************************************************************)
Searched == ret.op = "search_jobs"

\* the raw value the index holds for the job with this id
DistanceOf(id) ==
    Distance(rows[CHOOSE i \in 1..Len(rows) : rows[i].id = id].vector)

\* the candidates as the vector search produced them
Candidates == BaseJobs(rows, ret.arg.top_k)

\* the score array the service reads from the response, if it reads one
Parsed ==
    IF ret.arg.response.ok /\ RegexSearch(ret.arg.response.response) # <<>>
    THEN JsonLoads(RegexSearch(ret.arg.response.response))
    ELSE [ok |-> FALSE, scores |-> <<>>]

\* C7: every match_score returned is non-negative, re-scored or not; the
\* vector-derived score is max(0, (1 - distance) * 100) to one decimal:
\* 100 for distance 0, 0 for distance 1 and for any distance above 1.
C7_ScoresNonNegative ==
    Searched =>
      LET m == Len(Parsed.scores)
      IN  /\ \A i \in 1..Len(ret.value) : ret.value[i].match_score >= 0
          /\ \A i \in 1..Len(ret.value) :
              i > m =>
                 LET d == DistanceOf(ret.value[i].id)
                     score == ret.value[i].match_score
                 IN  /\ d = 0 => score = 1000
                     /\ d >= 10000 => score = 0
                     /\ d < 10000 => /\ score * 10 - (10000 - d) <= 5
                                     /\ (10000 - d) - score * 10 <= 5

\* A search has returned four jobs, the first re-scored, the second with
\* its score of 76.3 for the distance 0.2371, the last with a distance
\* above 1 and the score 0.
C7_Witness ==
    /\ Searched
    /\ Len(ret.value) = 4
    /\ Parsed.ok /\ Len(Parsed.scores) = 1
    /\ DistanceOf(ret.value[4].id) > 10000
    /\ ret.value[4].match_score = 0
    /\ ret.value[2].match_score = 763
    /\ ret.value[1].match_score # Candidates[1].match_score

\* A JSON number, with or without sign.
IsSignedJsonNumber(tok) ==
    \/ IsJsonNumber(tok)
    \/ tok # <<>> /\ tok[1] = "-" /\ IsJsonNumber(Tail(tok))

\* The text between a "[" and a "]" reads as the elements of a JSON array
\* of numbers.
IsNumberList(body) ==
    LET items == SplitComma(body)
    IN  \/ Strip(body) = <<>>
        \/ \A k \in 1..Len(items) : IsSignedJsonNumber(Strip(items[k]))

\* The response holds no well-formed numeric array anywhere.
NoScoreArray(resp) ==
    \A i \in {x \in 1..Len(resp) : resp[x] = "["} :
        \A j \in {y \in (i + 1)..Len(resp) : resp[y] = "]"} :
            ~IsNumberList(SubSeq(resp, i + 1, j - 1))

\* C8: if the Generator call fails or its response holds no well-formed
\* numeric score array, search_jobs returns every candidate of the vector
\* search with its vector-derived match_score.
C8_MalformedKeepsScores ==
    (Searched /\ (~ret.arg.response.ok \/ NoScoreArray(ret.arg.response.response))) =>
        /\ Len(ret.value) = Min(ret.arg.top_k, Len(rows))
        /\ ret.value = Candidates

\* A search of four candidates has returned after a response whose
\* bracketed array does not parse.
C8_Witness ==
    /\ Searched
    /\ Len(ret.value) = 4
    /\ ret.arg.response.ok
    /\ RegexSearch(ret.arg.response.response) # <<>>
    /\ NoScoreArray(ret.arg.response.response)

\* C9: for every Generator outcome the result holds the candidates of the
\* vector search, in its order, changed in match_score at most; when m
\* scores are parsed, the first m candidates carry them and the others keep
\* their own.
C9_OnlyScoresChange ==
    Searched =>
      LET found == Candidates
          scores == Parsed.scores
      IN  /\ Len(ret.value) = Len(found)
          /\ \A i \in 1..Len(ret.value) :
                /\ DOMAIN ret.value[i] = DOMAIN found[i]
                /\ \A k \in DOMAIN found[i] \ {"match_score"} :
                      ret.value[i][k] = found[i][k]
                /\ i > Len(scores) =>
                      ret.value[i].match_score = found[i].match_score
                /\ i <= Len(scores) =>
                      ret.value[i].match_score = ScoreTenths(scores[i])

\* C10: the list search_jobs returns is ordered best-first by the
\* match_score it reports, also after re-scoring.
C10_BestFirst ==
    Searched =>
        \A i \in 1..Len(ret.value) : \A j \in i..Len(ret.value) :
            ret.value[i].match_score >= ret.value[j].match_score

\* C11: search_jobs returns at most min(top_k, number of stored records)
\* results, each built from a record of the collection, no record twice;
\* no step of a search inserts, deletes or changes a stored record.
C11_SearchBounded ==
    [][ /\ rows' = rows
        /\ ret'.op = "search_jobs" =>
              LET found == ret'.value
              IN  /\ Len(found) <= Min(ret'.arg.top_k, Len(rows))
                  /\ \A i \in 1..Len(found) :
                        \E k \in 1..Len(rows) :
                            /\ rows[k].id = found[i].id
                            /\ \A f \in DOMAIN found[i] \ {"id", "match_score"} :
                                  rows[k][f] = found[i][f]
                  /\ \A i, j \in 1..Len(found) :
                        found[i].id = found[j].id => i = j ]_vars

\* A search with top_k = 2 over four stored records has returned two jobs.
C11_Witness ==
    /\ Searched
    /\ ret.arg.top_k = 2
    /\ Len(rows) = 4
    /\ Len(ret.value) = 2

(***************************************************************************)
(* Further claims about the collection, checked under SpecStore.           *)
(***************************************************************************)
RowIds(coll) == {coll[i].id : i \in 1..Len(coll)}

\* C19: the ids of the rows of the collection are pairwise distinct in every
\* reachable state, and a step leaves every row that stays in the
\* collection as it was, its id included: an add gives each record an id no
\* row has, so the same content added twice makes two rows.
C19_IdsDistinctFixed ==
    [][ LET before == RowIds(rows)
            stored == {rows[i] : i \in 1..Len(rows)}
        IN  (Cardinality(before) = Len(rows) /\ Cardinality(stored) = Len(rows)) =>
              /\ Cardinality(RowIds(rows')) = Len(rows')
              /\ \A i \in 1..Len(rows') :
                    rows'[i].id \in before => rows'[i] \in stored ]_vars

\* The same job has been added twice: two rows, equal but for their ids.
C19_Witness ==
    /\ insert_calls = 2
    /\ Len(rows) = 2
    /\ rows[1].id # rows[2].id
    /\ [rows[1] EXCEPT !.id = 0] = [rows[2] EXCEPT !.id = 0]

\* C16: on a connected service whose collection exists, get_collection_info
\* reports the number of rows in the collection, up to the scan bound,
\* whatever add, delete and clear calls came before, job records included;
\* only a failed scan makes it report the count of the store's stats.
C16_RowCountAccurate ==
    ( /\ ret.op = "get_collection_info"
      /\ call.fault \in {"none", "query"}
      /\ Connected(call.svc)
      /\ collection.exists ) =>
        /\ "row_count" \in DOMAIN ret.value
        /\ call.fault = "none" => ret.value.row_count = Min(Len(rows), CountLimit)
        /\ call.fault = "query" => ret.value.row_count = StatsRowCount(rows)

(***************************************************************************)
(* MilvusService.initialize, _create_collection and clear_collection       *)
(***************************************************************************)

\* (mutant) the schema sized after the loaded model
create_collection_model_dim(coll) ==
    [creates |-> coll.creates + 1, dim |-> model_dim, drops |-> coll.drops,
     exists |-> TRUE]

\* client.create_collection(schema with dim = self.dimension, ...)
create_collection(coll) ==
    [creates |-> coll.creates + 1, dim |-> Dimension, drops |-> coll.drops,
     exists |-> TRUE]

\* client.drop_collection(...)
drop_collection(coll) ==
    [creates |-> coll.creates, dim |-> 0, drops |-> coll.drops + 1,
     exists |-> FALSE]

\* (mutant) the collection created without looking
NeedsCreateAlways(coll) == TRUE

\* line 40: if not self.client.has_collection(collection_name=...)
NeedsCreate(coll) == ~coll.exists

\* initialize on the service object svc. fault is the failure the call
\* meets: "connect" fails MilvusClient(...), "probe" fails has_collection,
\* "create" fails create_collection (if it is called). Every failure is
\* logged and raised again (lines 46-48).
initialize(svc, fault) ==
    LET creating == fault \notin {"connect", "probe"} /\ NeedsCreate(collection)
        created == creating /\ fault # "create"
        raised == fault \in {"connect", "probe"} \/ (creating /\ fault = "create")
    IN  /\ connects[svc] < MaxInits
        /\ call' = [fault |-> fault, svc |-> svc]
        /\ connects' = [connects EXCEPT ![svc] = @ + 1]
        /\ client' = IF fault = "connect" THEN client
                     ELSE [client EXCEPT ![svc] = "connected"]
        /\ collection' = IF created THEN create_collection(collection)
                         ELSE collection
        /\ rows' = IF created THEN <<>> ELSE rows
        /\ ret' = [arg |-> <<>>, error |-> raised, op |-> "initialize",
                   value |-> IF raised THEN "MilvusException" ELSE <<>>]
        /\ UNCHANGED <<next_id, insert_calls, embedding_model, loads,
                       model_dim, enc>>
        /\ UNCHANGED chunkVars
        /\ UNCHANGED appVars

\* clear_collection on the service object svc. fault "probe" fails
\* has_collection, "create" fails create_collection after the drop.
clear_collection(svc, fault) ==
    LET dropped == IF collection.exists THEN drop_collection(collection)
                   ELSE collection
    IN  /\ collection.drops < MaxClears
        /\ call' = [fault |-> fault, svc |-> svc]
        /\ IF ~Connected(svc) \/ fault = "probe"
           THEN /\ ret' = [arg |-> <<>>, error |-> TRUE, op |-> "clear_collection",
                           value |-> IF Connected(svc) THEN "MilvusException"
                                     ELSE "AttributeError"]
                /\ UNCHANGED <<collection, rows>>
           ELSE /\ rows' = <<>>
                /\ collection' = IF fault = "create" THEN dropped
                                 ELSE create_collection(dropped)
                /\ ret' = [arg |-> <<>>, error |-> fault = "create",
                           op |-> "clear_collection",
                           value |-> IF fault = "create" THEN "MilvusException"
                                     ELSE <<>>]
        /\ UNCHANGED <<next_id, insert_calls, client, connects, embedding_model,
                       loads, model_dim, enc>>
        /\ UNCHANGED chunkVars
        /\ UNCHANGED appVars

(***************************************************************************)
(* SpecLife: the two service objects from construction on, under any       *)
(* sequence of calls, each with any failure of its store client. While a   *)
(* search awaits the Generator the specification follows that search.      *)
(***************************************************************************)
InitFaults == {"none", "connect", "probe", "create"}
ClearFaults == {"none", "probe", "create"}
CallFaults == {"none", "store"}
EmbedFaults == {"none", "embed", "store"}
LifeJobLists == { <<>>, <<Job1>> }
LifeFileNames == { <<"a">> }
LifeTopKs == {2}
LifeGeneratorOutcomes ==
    {[ok |-> FALSE, response |-> <<>>], [ok |-> TRUE, response |-> <<"[", "1", "]">>]}

Settled == ret.op # "search_jobs:await"

InitLife ==
    /\ rows = <<>>
    /\ next_id = 0
    /\ insert_calls = 0
    /\ ret = NoCall
    /\ \E dim \in {Dimension, OtherDimension} : ServicesNew(dim)
    /\ ChunkIdle
    /\ AppIdle

Initialize ==
    /\ Settled
    /\ \E svc \in Services, fault \in InitFaults : initialize(svc, fault)

ClearCollection ==
    /\ Settled
    /\ \E svc \in Services, fault \in ClearFaults : clear_collection(svc, fault)

LifeAddJobs ==
    /\ Settled
    /\ \E svc \in Services, jobs \in LifeJobLists, fault \in EmbedFaults :
          add_jobs(svc, jobs, fault)

LifeSearchJobs ==
    /\ Settled
    /\ \E svc \in Services, top_k \in LifeTopKs, fault \in EmbedFaults :
          search_jobs(svc, top_k, fault)

LifeSearchJobsResume ==
    /\ ~Settled
    /\ \E gen \in LifeGeneratorOutcomes : search_jobs_resume(gen)

LifeListDocuments ==
    /\ Settled
    /\ \E svc \in Services, fault \in CallFaults : list_documents(svc, fault)

LifeDeleteDocument ==
    /\ Settled
    /\ \E svc \in Services, f \in LifeFileNames, fault \in CallFaults :
          delete_document(svc, f, fault)

(***************************************************************************)
(* MilvusService.list_app_collections                                      *)
(***************************************************************************)
Hrsd == <<"h", "r", "s", "d">>
HrsdOld == <<"h", "r", "s", "d", "_", "o", "l", "d">>
Docs == <<"d", "o", "c", "s">>

\* str.startswith
StartsWith(s, prefix) ==
    /\ Len(prefix) <= Len(s)
    /\ SubSeq(s, 1, Len(prefix)) = prefix

\* the attributes __init__ gives a service object (lines 12-17)
Attributes ==
    {"client", "collection_name", "embedding_model", "embedding_model_name",
     "dimension"}

\* client.list_collections(): the collection of the service, if it exists,
\* and the other collections of the store
ListCollections(others) ==
    (IF collection.exists THEN <<Hrsd>> ELSE <<>>) \o others

\* lines 321-324. The comprehension reads self.collection_prefix once per
\* collection, so with no collection it is not read.
AppCollections(all) ==
    IF all = <<>> THEN [error |-> "none", value |-> <<>>]
    ELSE IF "collection_prefix" \notin Attributes
    THEN [error |-> "AttributeError", value |-> <<>>]
    ELSE [error |-> "none",
          value |-> SelectSeq(all, LAMBDA col : StartsWith(col, Hrsd))]

\* list_app_collections on the service object svc of a store that holds the
\* collections others besides the service's own; fault "store" fails
\* list_collections. Every exception is logged and raised again.
list_app_collections(svc, others, fault) ==
    LET out == IF ~Connected(svc) THEN [error |-> "AttributeError", value |-> <<>>]
               ELSE IF fault # "none" THEN [error |-> "MilvusException", value |-> <<>>]
               ELSE AppCollections(ListCollections(others))
    IN  /\ call' = [fault |-> fault, svc |-> svc]
        /\ ret' = [arg |-> others, error |-> out.error # "none",
                   op |-> "list_app_collections",
                   value |-> IF out.error # "none" THEN out.error ELSE out.value]
        /\ UNCHANGED <<rows, next_id, insert_calls>>
        /\ UNCHANGED <<client, connects, embedding_model, loads, model_dim,
                       collection, enc>>
        /\ UNCHANGED chunkVars
        /\ UNCHANGED appVars

OtherCollections == { <<>>, <<Docs, HrsdOld>> }

LifeListAppCollections ==
    /\ Settled
    /\ \E svc \in Services, others \in OtherCollections, fault \in CallFaults :
          list_app_collections(svc, others, fault)

(***************************************************************************)
(* JobEmbedder.clear_collection (job_embedder.py, lines 218-226): it       *)
(* returns a message and calls no method of its MilvusService.             *)
(***************************************************************************)
job_embedder_clear_collection ==
    /\ call' = [fault |-> "none", svc |-> 0]
    /\ ret' = [arg |-> <<>>, error |-> FALSE, op |-> "JobEmbedder.clear_collection",
               value |-> [message |->
                   "Collection clear functionality not implemented yet"]]
    /\ UNCHANGED <<rows, next_id, insert_calls>>
    /\ UNCHANGED <<client, connects, embedding_model, loads, model_dim,
                   collection, enc>>
    /\ UNCHANGED chunkVars
    /\ UNCHANGED appVars

JobEmbedderClearCollection ==
    /\ Settled
    /\ job_embedder_clear_collection

LifeGetCollectionInfo ==
    /\ Settled
    /\ \E svc \in Services, fault \in InfoFaults : get_collection_info(svc, fault)

NextLife ==
    \/ Initialize \/ ClearCollection \/ LifeAddJobs \/ LifeSearchJobs
    \/ LifeSearchJobsResume \/ LifeListDocuments \/ LifeDeleteDocument
    \/ LifeGetCollectionInfo \/ LifeListAppCollections
    \/ JobEmbedderClearCollection

SpecLife == InitLife /\ [][NextLife]_vars

(***************************************************************************)
(* Claims about the service objects, checked under SpecLife.               *)
(***************************************************************************)

\* C12: an initialize call creates the collection exactly when it is absent
\* and never drops it; on an existing collection it changes neither the
\* collection nor its rows. Over any calls the collection is created at
\* most once more than it was dropped, and the schema of an existing
\* collection is replaced only by clear_collection's drop and recreate.
C12_InitializeIdempotent ==
    [][ /\ connects' # connects =>
              /\ collection'.drops = collection.drops
              /\ collection.exists => (collection' = collection /\ rows' = rows)
              /\ ~collection.exists =>
                    /\ collection'.creates \in
                          {collection.creates, collection.creates + 1}
                    /\ ret'.error = FALSE =>
                          collection' = create_collection(collection)
              /\ ret'.error = FALSE => collection'.exists
        /\ (collection.exists /\ collection'.creates # collection.creates) =>
              /\ ret'.op = "clear_collection"
              /\ collection'.drops = collection.drops + 1
        /\ collection'.creates <= collection'.drops + 1 ]_vars

\* Both service objects have run initialize, the second one on the
\* collection the first one created.
C12_Witness ==
    /\ ret.op = "initialize" /\ ~ret.error
    /\ \A svc \in Services : Connected(svc)
    /\ collection.exists /\ collection.creates = 1 /\ collection.drops = 0

\* The call has ended in an error: raised, or, for get_collection_info,
\* returned under the key "error".
Failed(r) ==
    \/ r.error
    \/ r.op = "get_collection_info" /\ "error" \in DOMAIN r.value

\* C18: a call other than initialize on a service object without client
\* fails with an error and changes neither the rows nor the collection; an
\* initialize call constructs the client once, and one that cannot connect
\* or probe raises and leaves the service as it found it or connected.
C18_DisconnectedFails ==
    [][ /\ ( /\ call'.svc \in Services
             /\ ret'.op # "initialize"
             /\ ~Connected(call'.svc) ) =>
              /\ Failed(ret')
              /\ rows' = rows
              /\ collection' = collection
        /\ connects' # connects =>
              /\ connects' = [connects EXCEPT ![call'.svc] = @ + 1]
              /\ call'.fault \in {"connect", "probe"} =>
                    /\ ret'.error
                    /\ collection' = collection
              /\ call'.fault = "connect" => client' = client ]_vars

\* C18, amended: as C18, for every call other than initialize and other
\* than an add_jobs of no jobs, which returns before it uses the client.
C18_DisconnectedStoreCallFails ==
    [][ /\ ( /\ call'.svc \in Services
             /\ ret'.op # "initialize"
             /\ ~(ret'.op = "add_jobs" /\ ret'.arg = <<>>)
             /\ ~Connected(call'.svc) ) =>
              /\ Failed(ret')
              /\ rows' = rows
              /\ collection' = collection
        /\ connects' # connects =>
              /\ connects' = [connects EXCEPT ![call'.svc] = @ + 1]
              /\ call'.fault \in {"connect", "probe"} =>
                    /\ ret'.error
                    /\ collection' = collection
              /\ call'.fault = "connect" => client' = client ]_vars

\* add_jobs of a job has raised on a service object without client, while
\* the other one has created the collection and stored a row.
C18_Witness ==
    /\ ret.op = "add_jobs" /\ ret.error /\ ret.value = "AttributeError"
    /\ call.svc \in Services /\ ~Connected(call.svc)
    /\ collection.exists
    /\ Len(rows) = 1

\* The client of the call just made was there and failed during the call.
StoreFailed(c, r) ==
    /\ c.svc \in Services
    /\ Connected(c.svc)
    /\ c.fault \notin {"none", "embed"}
    /\ r.op \in {"add_jobs", "search_jobs", "list_documents", "delete_document",
                 "get_collection_info"}
    /\ ~(r.op = "add_jobs" /\ r.arg = <<>>)

\* C17: a call of add_jobs, search_jobs, list_documents, delete_document or
\* get_collection_info whose store client fails raises the client's error;
\* a search whose Generator fails returns normally.
C17_StoreFailureRaises ==
    [][ /\ StoreFailed(call', ret') =>
              /\ ret'.error
              /\ ret'.value = "MilvusException"
        /\ (ret.op = "search_jobs:await" /\ ret'.op = "search_jobs") =>
              ~ret'.error ]_vars

\* C20: every stored vector has Dimension = 384 components, and it is the
\* vector the model produced; an add of jobs whose embeddings have another
\* length raises and stores nothing.
C20_VectorsHaveDimension ==
    [][ /\ \A i \in 1..Len(rows') :
              /\ VectorDim(rows'[i].vector) = Dimension
              /\ rows'[i].vector = Vec(JobText(rows'[i]))
        /\ ( /\ ret'.op = "add_jobs"
             /\ ret'.arg # <<>>
             /\ model_dim # Dimension ) =>
                 /\ ret'.error
                 /\ rows' = rows ]_vars

\* A model of 768 dimensions is loaded, the collection exists with its
\* schema of 384, and an add_jobs on the connected service was rejected.
C20_Witness ==
    /\ model_dim = OtherDimension
    /\ ret.op = "add_jobs" /\ ret.error /\ ret.value = "MilvusException"
    /\ call.svc \in Services /\ Connected(call.svc) /\ call.fault = "none"
    /\ collection.exists /\ collection.dim = Dimension
    /\ embedding_model[call.svc] # 0
    /\ rows = <<>>

(***************************************************************************)
(* SpecEncode: _generate_embeddings on service objects shared by threads.  *)
(* app.py keeps one MilvusService for all sessions (st.cache_resource,     *)
(* lines 406-416) and every session runs its calls in a thread of its own, *)
(* so the statements of _get_embedding_model interleave.                   *)
(***************************************************************************)

\* line 21: if self.embedding_model is None
encode_check(t, svc) ==
    /\ enc[t].at = "idle"
    /\ enc' = [enc EXCEPT ![t] =
                  [at |-> IF embedding_model[svc] = 0 THEN "load" ELSE "loaded",
                   svc |-> svc, used |-> 0]]
    /\ UNCHANGED <<embedding_model, loads>>

\* line 23: self.embedding_model = SentenceTransformer(...)
encode_load(t) ==
    /\ enc[t].at = "load"
    /\ loads' = Append(loads, enc[t].svc)
    /\ embedding_model' = [embedding_model EXCEPT ![enc[t].svc] = Len(loads) + 1]
    /\ enc' = [enc EXCEPT ![t].at = "loaded"]

\* line 25 and line 99: model = (return) self.embedding_model
encode_get(t) ==
    /\ enc[t].at = "loaded"
    /\ enc' = [enc EXCEPT ![t] = [at |-> "encode", svc |-> enc[t].svc,
                                  used |-> embedding_model[enc[t].svc]]]
    /\ UNCHANGED <<embedding_model, loads>>

\* lines 100-101: model.encode(texts) returns
encode_return(t) ==
    /\ enc[t].at = "encode"
    /\ enc' = [enc EXCEPT ![t] = EncIdle]
    /\ UNCHANGED <<embedding_model, loads>>

EncodeRest ==
    /\ UNCHANGED <<call, client, connects, model_dim, collection>>
    /\ UNCHANGED storeVars
    /\ UNCHANGED chunkVars
    /\ UNCHANGED appVars

InitEncode ==
    /\ StoreIdle
    /\ ChunkIdle
    /\ AppIdle

EncodeCheck == \E t \in Threads, svc \in Services : encode_check(t, svc) /\ EncodeRest

EncodeLoad == \E t \in Threads : encode_load(t) /\ EncodeRest

EncodeGet == \E t \in Threads : encode_get(t) /\ EncodeRest

EncodeReturn == \E t \in Threads : encode_return(t) /\ EncodeRest

NextEncode == Initialize \/ EncodeCheck \/ EncodeLoad \/ EncodeGet \/ EncodeReturn

SpecEncode == InitEncode /\ [][NextEncode]_vars

\* the constructions of the model of service object svc
LoadsOf(svc) == {i \in 1..Len(loads) : loads[i] = svc}

\* C14: whatever the interleaving of the threads encoding on one service
\* object, its model is constructed at most once.
C14_SingleLoad == \A svc \in Services : Cardinality(LoadsOf(svc)) <= 1

\* C13: the model of a service object changes only from unloaded to loaded,
\* and only in a step of an encode request: no initialize step loads it and
\* no step replaces or unloads a loaded one.
C13_LoadedOnceByEncode ==
    [][ \A svc \in Services :
            embedding_model'[svc] # embedding_model[svc] =>
                /\ embedding_model[svc] = 0
                /\ embedding_model'[svc] # 0
                /\ connects' = connects ]_vars

\* C15: the process constructs the embedding model at most once, and the
\* service objects that have a model have the same one.
C15_ProcessWideSingleton ==
    /\ Len(loads) <= 1
    /\ \A s1, s2 \in Services :
          (embedding_model[s1] # 0 /\ embedding_model[s2] # 0) =>
              embedding_model[s1] = embedding_model[s2]

\* C21: an add_jobs of no jobs returns without error, whatever the state of
\* the service and of the store, and changes nothing: no model is loaded, no
\* insert is issued, rows and collection stay as they were.
C21_EmptyAddNoEffect ==
    [][ (ret'.op = "add_jobs" /\ ret'.arg = <<>>) =>
            /\ ~ret'.error
            /\ embedding_model' = embedding_model
            /\ loads' = loads
            /\ insert_calls' = insert_calls
            /\ next_id' = next_id
            /\ rows' = rows
            /\ collection' = collection
            /\ client' = client ]_vars

\* add_jobs of no jobs has returned its message on a service object that has
\* no model, while the collection holds a row.
C21_Witness ==
    /\ ret.op = "add_jobs" /\ ret.arg = <<>> /\ ~ret.error
    /\ ret.value = [message |-> "No jobs to add"]
    /\ call.svc \in Services
    /\ embedding_model[call.svc] = 0
    /\ Len(rows) = 1

\* C22: an add_jobs of jobs or a search_jobs whose embedding step fails
\* raises the embedding error, whatever the state of the store client, and
\* the store is as before: no insert counted, rows and collection unchanged.
C22_EmbeddingFailureFails ==
    [][ ( /\ call'.fault = "embed"
          /\ ret'.op \in {"add_jobs", "search_jobs"}
          /\ ~(ret'.op = "add_jobs" /\ ret'.arg = <<>>) ) =>
              /\ ret'.error
              /\ ret'.value = "EmbeddingError"
              /\ insert_calls' = insert_calls
              /\ next_id' = next_id
              /\ rows' = rows
              /\ collection' = collection ]_vars

\* add_jobs of a job has raised the embedding error on a connected service
\* whose collection exists and holds a row: the insert would have succeeded.
C22_Witness ==
    /\ ret.op = "add_jobs" /\ ret.error /\ ret.value = "EmbeddingError"
    /\ call.fault = "embed"
    /\ call.svc \in Services /\ Connected(call.svc)
    /\ collection.exists /\ model_dim = Dimension
    /\ Len(rows) = 1
    /\ insert_calls < MaxAdds

(***************************************************************************)
(* SpecChat: the chat input of app.py (lines 604-640) and get_chat_response *)
(* (lines 452-471), step by step at its awaits. The document search and    *)
(* the Generator are the callees: each returns or raises.                  *)
(***************************************************************************)
Doc1 == [filename |-> <<"a">>, score |-> 9, text |-> <<"t", "1">>]
Doc2 == [filename |-> <<"b">>, score |-> 5, text |-> <<"t", "2">>]

\* outcomes of `await milvus_service.search_documents(message)`
SearchOutcomes ==
    {[docs |-> d, error |-> "none"] : d \in {<<>>, <<Doc1>>, <<Doc1, Doc2>>}}
        \cup {[docs |-> <<>>, error |-> e] :
                  e \in {"AttributeError", "EmbeddingError", "MilvusException"}}

\* outcomes of `await groq_service.generate_response(...)`
ChatGeneratorOutcomes ==
    {[error |-> "none", response |-> r] : r \in {<<>>, <<"o", "k">>}}
        \cup {[error |-> e, response |-> <<>>] : e \in {"GroqError", "TimeoutError"}}

\* st.session_state.messages[-10:]
LastTen(n) == Min(n, 10)

\* (mutant) the handler logs and raises again, as the service methods do
ChatFailureReraised(e) == [raised |-> TRUE, response |-> <<>>, sources |-> <<>>]

\* lines 469-471: except Exception as e: log, return the message and []
ChatFailure(e) ==
    [raised |-> FALSE, response |-> <<"Sorry, I encountered an error: ", e>>,
     sources |-> <<>>]

\* line 467: return response, relevant_docs
ChatSuccess(response, docs) ==
    [raised |-> FALSE, response |-> response, sources |-> docs]

\* lines 604-617 and 452-457: the prompt is appended to the messages and
\* get_chat_response awaits the document search
chat_input ==
    /\ chat.at \in {"idle", "done"}
    /\ chat.history + 2 <= MaxMessages
    /\ chat' = [at |-> "search", chat_history |-> 0, docs |-> <<>>,
                error |-> "none", fault |-> "none", generated |-> 0,
                history |-> chat.history + 1, result |-> NoResult]

\* the caller of get_chat_response, lines 619-640: the answer is appended
\* to the messages
chat_answer(c, result) ==
    [c EXCEPT !.at = "done", !.result = result, !.history = @ + 1]

\* (mutant) the Generator is asked even though the search failed
chat_searched_asks_anyway(out) ==
    /\ chat.at = "search"
    /\ chat' = [chat EXCEPT !.at = "generate", !.docs = out.docs,
                            !.error = out.error,
                            !.fault = IF out.error = "none" THEN "none" ELSE "search",
                            !.generated = @ + 1,
                            !.chat_history = LastTen(chat.history)]

\* the search returns or raises: lines 457-465 or 469-471
chat_searched(out) ==
    /\ chat.at = "search"
    /\ chat' = IF out.error # "none"
               THEN chat_answer([chat EXCEPT !.error = out.error, !.fault = "search"],
                                ChatFailure(out.error))
               ELSE [chat EXCEPT !.at = "generate", !.docs = out.docs,
                                 !.generated = @ + 1,
                                 !.chat_history = LastTen(chat.history)]

\* the Generator returns or raises: lines 467 or 469-471
chat_generated(out) ==
    /\ chat.at = "generate"
    /\ chat' = IF out.error # "none"
               THEN chat_answer([chat EXCEPT !.error = out.error, !.fault = "generator"],
                                ChatFailure(out.error))
               ELSE chat_answer(chat, ChatSuccess(out.response, chat.docs))

ChatRest ==
    /\ UNCHANGED storeVars
    /\ UNCHANGED svcVars
    /\ UNCHANGED chunkVars
    /\ UNCHANGED <<upload, temp_files, temp_count>>

InitChat ==
    /\ StoreIdle
    /\ ChunkIdle
    /\ AppIdle

ChatInput == chat_input /\ ChatRest

ChatSearched == \E out \in SearchOutcomes : chat_searched(out) /\ ChatRest

ChatGenerated == \E out \in ChatGeneratorOutcomes : chat_generated(out) /\ ChatRest

NextChat == ChatInput \/ ChatSearched \/ ChatGenerated

SpecChat == InitChat /\ [][NextChat]_vars

\* the user-facing message for the failure e
IsErrorMessage(response, e) ==
    response = <<"Sorry, I encountered an error: ", e>>

\* C23: get_chat_response returns in every case; when the document search
\* or the Generator has failed it returns the error message for that
\* failure with no sources, and after a failed search the Generator was not
\* called.
C23_ChatNeverRaises ==
    chat.at = "done" =>
        /\ ~chat.result.raised
        /\ chat.fault # "none" =>
              /\ IsErrorMessage(chat.result.response, chat.error)
              /\ chat.result.sources = <<>>
        /\ chat.fault = "search" => chat.generated = 0
        /\ chat.fault = "generator" => chat.generated = 1

\* The search found two documents, the Generator failed, and the answer is
\* the error message without the documents.
C23_Witness ==
    /\ chat.at = "done"
    /\ chat.fault = "generator"
    /\ Len(chat.docs) = 2
    /\ chat.result.sources = <<>>
    /\ chat.history > 10

\* C24: on a connected service whose store answers, list_app_collections
\* returns the collections of the store whose name starts with "hrsd", in
\* the store's order, and no others.
C24_PrefixedCollections ==
    ( /\ ret.op = "list_app_collections"
      /\ Connected(call.svc)
      /\ call.fault = "none" ) =>
          /\ ~ret.error
          /\ ret.value = SelectSeq(ListCollections(ret.arg),
                                   LAMBDA col : StartsWith(col, Hrsd))

\* C25: when JobEmbedder.clear_collection has returned without error, under
\* the key "error" included, the collection holds no rows.
C25_EmbedderClearEmpties ==
    ( /\ ret.op = "JobEmbedder.clear_collection"
      /\ ~ret.error
      /\ "error" \notin DOMAIN ret.value ) => rows = <<>>

\* C26: every match_score search_jobs returns lies within 0..100, whatever
\* the raw value of the index and whatever the Generator answered.
C26_ScoresWithinPercent ==
    Searched =>
        \A i \in 1..Len(ret.value) :
            /\ ret.value[i].match_score >= 0
            /\ ret.value[i].match_score <= 1000

(***************************************************************************)
(* Further claims about the chunker, checked under SpecChunk.              *)
(***************************************************************************)

\* the chunk's words are the words of the input from position s on
\* (positions from 0)
ChunkAt(chunk, s) ==
    /\ chunk.text # <<>>
    /\ s + Len(chunk.text) <= Len(words)
    /\ chunk.text = SubSeq(words, s + 1, s + Len(chunk.text))

\* the chunks from the k-th on can be given start positions from `from` on,
\* strictly increasing, at which the input reads as they do (the earliest
\* fitting position is tried for each: if any choice fits, that one does)
RECURSIVE Placeable(_, _)
Placeable(k, from) ==
    IF k > Len(chunks) THEN TRUE
    ELSE LET fits == {s \in from..(Len(words) - 1) : ChunkAt(chunks[k], s)}
         IN  /\ fits # {}
             /\ Placeable(k + 1, (CHOOSE s \in fits : \A x \in fits : s <= x) + 1)

\* C27: every emitted chunk is a run of consecutive words of the input, in
\* their order, and carries the filename passed in; the chunks, in emission
\* order, start at strictly increasing word positions.
C27_ChunksAreWordRuns ==
    pc \in {"loop", "done"} =>
        /\ \A k \in 1..Len(chunks) : chunks[k].filename = chunk_file
        /\ Placeable(1, 0)

\* words[start:start + words_per_chunk], the window at start
Window(s) == PySlice(words, s, s + chunk_size \div 5)

FirstWords(ws, n) == SubSeq(ws, 1, Min(n, Len(ws)))

LastWords(ws, n) == SubSeq(ws, Len(ws) - Min(n, Len(ws)) + 1, Len(ws))

\* C28: with w = chunk_size // 5 and o = chunk_overlap // 5, 0 <= o < w, an
\* iteration of the loop moves start to o words before the window's end, a
\* net advance of w - o; the next window begins with the last o words of
\* this one; an emitted chunk is the window; and the loop ends with the
\* first window whose end reaches or passes the last word.
C28_WindowsOverlap ==
    [][ LET w == chunk_size \div 5
            o == chunk_overlap \div 5
        IN  (iters' = iters + 1 /\ 0 <= o /\ o < w) =>
                /\ start' = (start + w) - o
                /\ start' - start = w - o
                /\ (pc' = "done") <=> (start + w >= Len(words))
                /\ pc' = "loop" =>
                      /\ Len(Window(start)) = w
                      /\ FirstWords(Window(start'), o) = LastWords(Window(start), o)
                /\ Len(chunks') > Len(chunks) =>
                      chunks'[Len(chunks')].text = Window(start) ]_vars

\* A text of four words was cut with w = 2 and o = 1 into the three windows
\* at words 0, 1 and 2.
C28_Witness ==
    /\ pc = "done"
    /\ chunk_size \div 5 = 2
    /\ chunk_overlap \div 5 = 1
    /\ Len(words) = 4
    /\ iters = 3
    /\ Len(chunks) >= 2

\* the word at position i of the input is in some emitted chunk
Covered(ws, i) ==
    \E k \in 1..Len(chunks) : \E j \in 1..Len(chunks[k].text) :
        chunks[k].text[j] = ws[i]

\* C29: with the parameters of the constructor (1000, 200), a call that has
\* returned either returned no chunk, and then the text joins to at most 50
\* characters, or every word of the text is in an emitted chunk; every
\* window was emitted then, each after the first holding 41 words or more.
C29_DefaultsLoseNothing ==
    (pc = "done" /\ chunk_size = 1000 /\ chunk_overlap = 200) =>
        LET ws == Split(text)
        IN  \/ chunks = <<>> /\ JoinLen(ws) <= MinChunkChars
            \/ /\ \A i \in 1..Len(ws) : Covered(ws, i)
               /\ Len(chunks) = iters
               /\ \A k \in 2..Len(chunks) : Len(chunks[k].text) >= 41

\* A text of 361 words was cut with the default parameters into three
\* chunks, the last of 41 words.
C29_Witness ==
    /\ pc = "done"
    /\ chunk_size = 1000 /\ chunk_overlap = 200
    /\ Len(words) = 361
    /\ Len(chunks) = 3
    /\ Len(chunks[3].text) = 41

(***************************************************************************)
(* SpecUpload: the handlers that keep an upload in a temporary file, step  *)
(* by step at their awaits: upload_cv (app_hrsd.py, lines 94-124) and      *)
(* add_jobs (lines 173-205) of the REST app, process_uploaded_file         *)
(* (app.py, lines 426-450) of the chat app. Requests run concurrently.     *)
(***************************************************************************)

\* os.unlink(path), os.remove(path)
Unlink(files, path) == files \ {path}

\* (mutant) the file removed on the success path alone
CleanupAfterFailureMissing(files, path) == files

\* the removal on the way out of a failed call: `finally: os.unlink(...)`
\* (app_hrsd.py, lines 118-120, 199-201) and `if os.path.exists(temp_path):
\* os.remove(temp_path)` (app.py, lines 447-449)
CleanupAfterFailure(files, path) == Unlink(files, path)

\* the name tempfile.NamedTemporaryFile gives its next file
TempName(n) == <<"tmp", n>>

\* f"temp_{file.name}"
TempPath(name) == <<"temp_", name>>

\* upload_cv and add_jobs up to `await file.read()`. Without a filename
\* upload_cv raises at line 100 and add_jobs inside os.path.splitext, both
\* before a file is made; the handler answers 500 (lines 122-124, 203-205).
rest_begin(h, kind, name) ==
    /\ upload[h].at \in {"idle", "done"}
    /\ IF name = ""
       THEN /\ upload' = [upload EXCEPT ![h] =
                  [at |-> "done", fault |-> "filename", kind |-> kind,
                   name |-> name, path |-> <<>>]]
            /\ UNCHANGED <<temp_files, temp_count>>
       ELSE /\ temp_count < MaxUploads
            /\ temp_count' = temp_count + 1
            /\ temp_files' = temp_files \cup {TempName(temp_count + 1)}
            /\ upload' = [upload EXCEPT ![h] =
                  [at |-> "read", fault |-> "none", kind |-> kind,
                   name |-> name, path |-> TempName(temp_count + 1)]]

\* file.read() returns or raises. A raise leaves the `with` before
\* tmp_file_path is set and before the inner try: nothing unlinks the file.
\* After the read add_jobs refuses every extension but .csv and .json
\* inside the inner try.
rest_read(h, ok) ==
    /\ upload[h].at = "read"
    /\ IF ~ok
       THEN /\ upload' = [upload EXCEPT ![h].at = "done", ![h].fault = "read"]
            /\ UNCHANGED temp_files
       ELSE IF upload[h].kind = "add_jobs" /\ upload[h].name \notin {".csv", ".json"}
       THEN /\ upload' = [upload EXCEPT ![h].at = "done", ![h].fault = "format"]
            /\ temp_files' = CleanupAfterFailure(temp_files, upload[h].path)
       ELSE /\ upload' = [upload EXCEPT ![h].at = "process"]
            /\ UNCHANGED temp_files
    /\ UNCHANGED temp_count

\* process_cv, add_jobs_from_csv or add_jobs_from_json returns or raises
\* (out is "none" or what failed); the finally clause unlinks the file
rest_processed(h, out) ==
    /\ upload[h].at = "process"
    /\ upload[h].kind \in {"upload_cv", "add_jobs"}
    /\ upload' = [upload EXCEPT ![h].at = "done", ![h].fault = out]
    /\ temp_files' = IF out = "none" THEN Unlink(temp_files, upload[h].path)
                     ELSE CleanupAfterFailure(temp_files, upload[h].path)
    /\ UNCHANGED temp_count

\* process_uploaded_file up to `await document_processor.process_document`:
\* the upload is written to temp_<name> (lines 430-432)
app_begin(h, name) ==
    /\ upload[h].at \in {"idle", "done"}
    /\ temp_files' = temp_files \cup {TempPath(name)}
    /\ upload' = [upload EXCEPT ![h] =
          [at |-> "process", fault |-> "none", kind |-> "process_uploaded_file",
           name |-> name, path |-> TempPath(name)]]
    /\ UNCHANGED temp_count

\* process_document returns or raises; on success the handler awaits
\* add_documents
app_processed(h, out) ==
    /\ upload[h].at = "process"
    /\ upload[h].kind = "process_uploaded_file"
    /\ IF out = "none"
       THEN /\ upload' = [upload EXCEPT ![h].at = "store"]
            /\ UNCHANGED temp_files
       ELSE /\ upload' = [upload EXCEPT ![h].at = "done", ![h].fault = out]
            /\ temp_files' = CleanupAfterFailure(temp_files, upload[h].path)
    /\ UNCHANGED temp_count

\* add_documents returns or raises. On success os.remove(temp_path) (line
\* 443) raises if another session has removed the file of that name; the
\* handler at line 447 finds no file and raises again.
app_stored(h, out) ==
    /\ upload[h].at = "store"
    /\ IF out = "none"
       THEN /\ upload' = [upload EXCEPT ![h].at = "done",
                  ![h].fault = IF upload[h].path \in temp_files THEN "none"
                               ELSE "remove"]
            /\ temp_files' = Unlink(temp_files, upload[h].path)
       ELSE /\ upload' = [upload EXCEPT ![h].at = "done", ![h].fault = out]
            /\ temp_files' = CleanupAfterFailure(temp_files, upload[h].path)
    /\ UNCHANGED temp_count

UploadRest ==
    /\ UNCHANGED storeVars
    /\ UNCHANGED svcVars
    /\ UNCHANGED chunkVars
    /\ UNCHANGED chat

InitUpload ==
    /\ StoreIdle
    /\ ChunkIdle
    /\ AppIdle

RestBegin ==
    \E h \in Handlers, name \in {"", ".csv", ".txt"} :
        \E kind \in {"upload_cv", "add_jobs"} : rest_begin(h, kind, name) /\ UploadRest

RestRead == \E h \in Handlers, ok \in BOOLEAN : rest_read(h, ok) /\ UploadRest

RestProcessed ==
    \E h \in Handlers, out \in {"none", "processing", "embedding", "storing"} :
        /\ upload[h].kind = "upload_cv" => out \in {"none", "processing"}
        /\ rest_processed(h, out)
        /\ UploadRest

AppBegin == \E h \in Handlers, name \in {"a", "b"} : app_begin(h, name) /\ UploadRest

AppProcessed ==
    \E h \in Handlers, out \in {"none", "processing"} : app_processed(h, out) /\ UploadRest

AppStored ==
    \E h \in Handlers, out \in {"none", "embedding", "storing"} :
        app_stored(h, out) /\ UploadRest

NextUpload ==
    \/ RestBegin \/ RestRead \/ RestProcessed
    \/ AppBegin \/ AppProcessed \/ AppStored

SpecUpload == InitUpload /\ [][NextUpload]_vars

\* C30: when a handler returns, after success or after a failure of
\* processing, embedding or storing, the temporary file it wrote is not on
\* disk.
C30_TempFileRemoved ==
    [][ \A h \in Handlers :
          ( /\ upload'[h].at = "done"
            /\ upload[h].at \in {"process", "store"}
            /\ upload'[h].fault \in {"none", "processing", "embedding", "storing"} ) =>
                upload'[h].path \notin temp_files' ]_vars

\* add_jobs of the REST app has returned after a failure of storing and its
\* file is gone, while the other request is still processing its own.
C30_Witness ==
    \E h, g \in Handlers :
        /\ upload[h].at = "done" /\ upload[h].kind = "add_jobs"
        /\ upload[h].fault = "storing"
        /\ upload[h].path \notin temp_files
        /\ upload[g].at = "process"
        /\ upload[g].path \in temp_files

====
